---- MODULE Spec2Model ----
(***************************************************************************)
(* A model of angular_dynamic_forms/rest.py: the AngularFormMixin viewset  *)
(* mixin that turns a serializer's field metadata and a declarative layout *)
(* into the form description served on /form and /form/<form_id>.          *)
(*                                                                         *)
(* Python values are encoded as follows.                                   *)
(*   - str: a TLA+ string; None/bool where they can meet a str: PyNone,    *)
(*     PyBool(b), PyStr(s).                                                *)
(*   - dict: a function from key strings to values.                        *)
(*   - a raw layout value (what a developer writes in form_layout): tagged *)
(*     by its Python type, RStr / RMap / RList / RTuple / ROther / RNone / *)
(*     RCallable, because the code dispatches on isinstance and callable.  *)
(*   - a dict owned by the configuration and reachable through a shallow   *)
(*     copy is an object on the heap, referred to by Ref(a).               *)
(***************************************************************************)
EXTENDS Integers, Sequences, FiniteSets, TLC

VARIABLES
    viewsets,   \* the two viewset classes' configuration (class attributes)
    heap,       \* the dict objects nested inside the configured layouts/defaults
    request,    \* the request being answered (or "none" before the first)
    response    \* what the handler returned or raised for that request

vars == <<viewsets, heap, request, response>>

-----------------------------------------------------------------------------
(* Strings, character by character. *)

LowerAlphabet == "abcdefghijklmnopqrstuvwxyz"
UpperAlphabet == "ABCDEFGHIJKLMNOPQRSTUVWXYZ"

CharAt(s, i) == SubSeq(s, i, i)

Letters == 1..Len(LowerAlphabet)
LowerOf == [c \in {CharAt(UpperAlphabet, i) : i \in Letters} |->
               CharAt(LowerAlphabet, CHOOSE i \in Letters : CharAt(UpperAlphabet, i) = c)]
UpperOf == [c \in {CharAt(LowerAlphabet, i) : i \in Letters} |->
               CharAt(UpperAlphabet, CHOOSE i \in Letters : CharAt(LowerAlphabet, i) = c)]

\* str.lower() / str.upper() of one character
LowerChar(c) == IF c \in DOMAIN LowerOf THEN LowerOf[c] ELSE c
UpperChar(c) == IF c \in DOMAIN UpperOf THEN UpperOf[c] ELSE c

RECURSIVE str_lower(_)
str_lower(s) ==
    IF Len(s) = 0 THEN "" ELSE LowerChar(CharAt(s, 1)) \o str_lower(SubSeq(s, 2, Len(s)))

\* str.title() of a word of letters: first letter upper case, the rest lower
str_title(s) ==
    IF Len(s) = 0 THEN "" ELSE UpperChar(CharAt(s, 1)) \o str_lower(SubSeq(s, 2, Len(s)))

Contains(s, c) == \E i \in 1..Len(s) : CharAt(s, i) = c

\* position of the first c in s, or Len(s)+1
FirstIndex(s, c) ==
    IF Contains(s, c) THEN CHOOSE i \in 1..Len(s) :
                               /\ CharAt(s, i) = c
                               /\ \A j \in 1..(i-1) : CharAt(s, j) # c
    ELSE Len(s) + 1

\* position of the last c in s, or 0
LastIndex(s, c) ==
    IF Contains(s, c) THEN CHOOSE i \in 1..Len(s) :
                               /\ CharAt(s, i) = c
                               /\ \A j \in (i+1)..Len(s) : CharAt(s, j) # c
    ELSE 0

\* str.split(sep): the sequence of pieces between separators
RECURSIVE str_split(_, _)
str_split(s, sep) ==
    IF ~Contains(s, sep) THEN <<s>>
    ELSE <<SubSeq(s, 1, FirstIndex(s, sep) - 1)>>
         \o str_split(SubSeq(s, FirstIndex(s, sep) + 1, Len(s)), sep)

RECURSIVE str_join(_)
str_join(parts) ==
    IF Len(parts) = 0 THEN "" ELSE Head(parts) \o str_join(Tail(parts))

EndsWith(s, c) == Len(s) > 0 /\ CharAt(s, Len(s)) = c

\* camel(snake_str), rest.py:399
camel(snake_str) ==
    IF ~Contains(snake_str, "_") THEN snake_str
    ELSE LET parts == str_split(snake_str, "_")
             first == Head(parts)
             others == Tail(parts)
         IN  str_lower(first) \o str_join([i \in 1..Len(others) |-> str_title(others[i])])

\* os.path.dirname for a path holding at least one "/"
dirname(path) ==
    LET head == SubSeq(path, 1, LastIndex(path, "/"))
        AllSlashes(h) == \A i \in 1..Len(h) : CharAt(h, i) = "/"
        RStrip[n \in 0..Len(head)] ==
            IF n > 0 /\ CharAt(head, n) = "/" THEN RStrip[n - 1] ELSE n
    IN  IF Len(head) > 0 /\ ~AllSlashes(head) THEN SubSeq(head, 1, RStrip[Len(head)]) ELSE head

\* AngularFormMixin._base_path(path, level), rest.py:138
RECURSIVE dirname_times(_, _)
dirname_times(path, level) ==
    IF level = 0 THEN path ELSE dirname_times(dirname(path), level - 1)

base_path(path, level) ==
    LET p == IF EndsWith(path, "/") THEN SubSeq(path, 1, Len(path) - 1) ELSE path
    IN  dirname_times(p, level) \o "/"

\* does s match  /form(/[^/]+)?/?$  from its first character to its end
MatchesFormSuffix(s) ==
    /\ Len(s) >= 5
    /\ SubSeq(s, 1, 5) = "/form"
    /\ LET rest == SubSeq(s, 6, Len(s))
       IN  \/ rest = ""
           \/ rest = "/"
           \/ /\ Len(rest) >= 2
              /\ CharAt(rest, 1) = "/"
              /\ LET seg == IF EndsWith(rest, "/") THEN SubSeq(rest, 2, Len(rest) - 1)
                                                   ELSE SubSeq(rest, 2, Len(rest))
                 IN  Len(seg) >= 1 /\ ~Contains(seg, "/")

\* re.sub(r'/form(/[^/]+)?/?$', '', path): the leftmost match is removed
strip_form_suffix(path) ==
    IF \E i \in 1..Len(path) : MatchesFormSuffix(SubSeq(path, i, Len(path)))
    THEN LET i == CHOOSE i \in 1..Len(path) :
                      /\ MatchesFormSuffix(SubSeq(path, i, Len(path)))
                      /\ \A j \in 1..(i-1) : ~MatchesFormSuffix(SubSeq(path, j, Len(path)))
         IN  SubSeq(path, 1, i - 1)
    ELSE path

-----------------------------------------------------------------------------
(* Python values. *)

PyNone == [py |-> "None"]
PyBool(b) == [py |-> "bool", b |-> b]
PyStr(s) == [py |-> "str", s |-> s]

\* bool(x)
Truthy(x) ==
    CASE x.py = "None" -> FALSE
      [] x.py = "bool" -> x.b
      [] x.py = "str" -> x.s # ""

\* a or b
PyOr(a, b) == IF Truthy(a) THEN a ELSE b

\* d.get(key), None when the key is absent
PyGet(d, key) == IF key \in DOMAIN d THEN d[key] ELSE PyNone

RNone == [k |-> "none"]
RStr(s) == [k |-> "str", s |-> s]
RMap(m) == [k |-> "dict", m |-> m]
RList(items) == [k |-> "list", items |-> items]
RTuple(items) == [k |-> "tuple", items |-> items]
ROther(x) == [k |-> "other", o |-> x]
RCallable(name) == [k |-> "callable", fn |-> name]
Ref(a) == [ref |-> a]

EmptyDict == [x \in {} |-> ""]

\* bool(x) of a raw configuration value: None, empty str/dict/list/tuple are falsy
RawTruthy(x) ==
    CASE x.k = "none" -> FALSE
      [] x.k = "str" -> x.s # ""
      [] x.k = "dict" -> DOMAIN x.m # {}
      [] x.k \in {"list", "tuple"} -> Len(x.items) > 0
      [] OTHER -> TRUE

\* dict(a); a.update(b)
Update(a, b) == [key \in DOMAIN a \cup DOMAIN b |-> IF key \in DOMAIN b THEN b[key] ELSE a[key]]

\* the outcome of a call: a value, or the exception it raised
Ok(v) == [err |-> "", v |-> v]
Err(e) == [err |-> e]
IsErr(r) == r.err # ""

\* the exception a comprehension over results raises: that of its first failing element
FirstErr(results) ==
    LET bad == {i \in 1..Len(results) : IsErr(results[i])}
    IN  IF bad = {} THEN ""
        ELSE results[CHOOSE i \in bad : \A j \in bad : i <= j].err

Values(results) == [i \in 1..Len(results) |-> results[i].v]

\* The keys whose values are containers in the modelled configurations; every
\* other key holds a str or a bool (or a callable producing one).
StructKeys == {"controls", "columns", "choices", "validators"}

\* The callables a layout author may put in a node: lambda form: <a str>
CallableValues == {"<lambda:label>"}
IsCallable(key, v) == key \notin StructKeys /\ v \in CallableValues
\* v(self)
Call(v, vs) == "Dynamic " \o vs.verbose_name

-----------------------------------------------------------------------------
(* Layout Transformer. *)

\* AngularFormMixin._get_field_layout, rest.py:189
_get_field_layout(field_name, field) == RMap([id |-> field_name])

\* model._meta.get_field(name): the column's class, or FieldDoesNotExist
get_field(vs, name) ==
    IF name \in DOMAIN vs.columns THEN Ok(vs.columns[name]) ELSE Err("FieldDoesNotExist")

\* the dict branch of _transform_layout up to the dispatch on type, rest.py:196-205
MergeDefaults(node, form_defaults) ==
    IF "id" \in DOMAIN node /\ node["id"] \in DOMAIN form_defaults
    THEN Update(node, form_defaults[node["id"]])
    ELSE node

CallValues(node, vs) ==
    [key \in DOMAIN node |-> IF IsCallable(key, node[key]) THEN Call(node[key], vs) ELSE node[key]]

LayoutType(node) == IF "type" \in DOMAIN node THEN node["type"] ELSE "string"

\* the string branch with the isinstance(field, TextField) test left out
StringOrTextarea_AnyColumn(vs, node) ==
    IF "id" \notin DOMAIN node THEN Err("KeyError")
    ELSE IF ~IsErr(get_field(vs, node["id"]))
         THEN Ok(RMap(Update(node, [type |-> "textarea"])))
         ELSE Ok(RMap(node))

\* the string branch, rest.py:216-227
StringOrTextarea(vs, node) ==
    IF "id" \notin DOMAIN node THEN Err("KeyError")
    ELSE LET field == get_field(vs, node["id"])
         IN  IF ~IsErr(field) /\ field.v = "TextField"
             THEN Ok(RMap(Update(node, [type |-> "textarea"])))
             ELSE Ok(RMap(node))

\* the list branch's result when nested sequences are not wrapped
WrapArray_NeverWraps(children, wrap_array) == RList(children)

\* the list branch's result, rest.py:231-237
WrapArray(children, wrap_array) ==
    IF wrap_array
    THEN RMap([type |-> "group", controls |-> RList(children)])
    ELSE RList(children)

\* AngularFormMixin._transform_layout, rest.py:193
RECURSIVE _transform_layout(_, _, _, _)
_transform_layout(vs, layout, form_defaults, wrap_array) ==
    CASE layout.k = "dict" ->
            LET node == CallValues(MergeDefaults(layout.m, form_defaults), vs)
                layout_type == LayoutType(node)
            IN  CASE layout_type \in {"fieldset", "group"} ->
                        IF "controls" \notin DOMAIN node THEN Err("KeyError")
                        ELSE LET sub == _transform_layout(vs, node["controls"], form_defaults, FALSE)
                             IN  IF IsErr(sub) THEN sub
                                 ELSE Ok(RMap(Update(node, [controls |-> sub.v])))
                  [] layout_type = "columns" ->
                        IF "columns" \notin DOMAIN node THEN Err("KeyError")
                        ELSE LET sub == _transform_layout(vs, node["columns"], form_defaults, FALSE)
                                 with == Update(node, [controls |-> IF IsErr(sub) THEN RNone ELSE sub.v])
                             IN  IF IsErr(sub) THEN sub
                                 ELSE Ok(RMap([key \in DOMAIN with \ {"columns"} |-> with[key]]))
                  [] layout_type = "string" -> StringOrTextarea(vs, node)
                  [] OTHER -> Ok(RMap(node))
      [] layout.k \in {"list", "tuple"} ->
            LET subs == [i \in 1..Len(layout.items) |->
                            _transform_layout(vs, layout.items[i], form_defaults, TRUE)]
            IN  IF FirstErr(subs) # "" THEN Err(FirstErr(subs))
                ELSE Ok(WrapArray(Values(subs), wrap_array))
      [] layout.k = "str" ->
            _transform_layout(vs, RMap([id |-> layout.s]), form_defaults, TRUE)
      [] OTHER -> Err("NotImplementedError")

-----------------------------------------------------------------------------
(* Layout Resolver. *)

\* fields_info as get_serializer_info returns it: an ordered dict, here the
\* sequence of its items <<[name, info]>> in insertion order
FieldNames(fields) == {fields[i].name : i \in 1..Len(fields)}
FieldInfo(fields, name) ==
    fields[CHOOSE i \in 1..Len(fields) : fields[i].name = name].info
\* fields_info.get(name, {})
FieldsGet(fields, name) ==
    IF name \in FieldNames(fields) THEN FieldInfo(fields, name) ELSE EmptyDict

\* the comprehension of rest.py:169 without its read_only filter
EveryFieldLayout(fields) ==
    [i \in 1..Len(fields) |-> _get_field_layout(fields[i].name, fields[i].info)]

\* [f(x) for x in seq if keep(x)], keeping the order
RECURSIVE WritableLayout(_)
WritableLayout(fields) ==
    IF Len(fields) = 0 THEN <<>>
    ELSE (IF ~Head(fields).info["read_only"]
          THEN <<_get_field_layout(Head(fields).name, Head(fields).info)>>
          ELSE <<>>) \o WritableLayout(Tail(fields))

\* the layout callables of the modelled viewsets: form_layout(fields)
CallLayout(name, fields) ==
    CASE name = "every_field" ->
            RList([i \in 1..Len(fields) |-> RStr(fields[i].name)])
      [] name = "empty" -> RList(<<>>)
      [] OTHER ->
            RList(<<RMap([id |-> "name", validators |-> RMap([max_length |-> "5"])])>>)

\* the defaults callables of the modelled viewsets: form_defaults(fields)
CallDefaults(name, fields) ==
    [f \in FieldNames(fields) |-> [label |-> "Field " \o f]]

\* the layout the class configures for a form, rest.py:149-154
ConfiguredLayout(vs, form_name) ==
    IF form_name # "" THEN vs.form_layouts[form_name] ELSE vs.form_layout

\* the defaults the class configures for a form, rest.py:149-157
ConfiguredDefaults(vs, form_name) ==
    IF form_name # ""
    THEN (IF form_name \in DOMAIN vs.form_defaults_map
          THEN vs.form_defaults_map[form_name] ELSE RNone)
    ELSE vs.form_defaults

\* form_defaults as _transform_layout receives it, rest.py:156-160
EffectiveDefaults(vs, fields, form_name) ==
    LET configured == ConfiguredDefaults(vs, form_name)
    IN  CASE ~RawTruthy(configured) -> EmptyDict
          [] configured.k = "callable" -> CallDefaults(configured.fn, fields)
          [] OTHER -> configured.m

\* layout as _transform_layout receives it, rest.py:162-170
EffectiveLayout(vs, fields, form_name) ==
    LET form_layout == ConfiguredLayout(vs, form_name)
    IN  IF RawTruthy(form_layout)
        THEN (IF form_layout.k = "callable"
              THEN CallLayout(form_layout.fn, fields)
              ELSE form_layout)
        ELSE RList(WritableLayout(fields))

\* AngularFormMixin._get_form_layout, rest.py:148
\* gives [err, v, called]: called tells whether a layout callable was invoked
_get_form_layout(vs, fields, form_name) ==
    LET form_layout == ConfiguredLayout(vs, form_name)
        out == _transform_layout(vs, EffectiveLayout(vs, fields, form_name),
                                 EffectiveDefaults(vs, fields, form_name), FALSE)
    IN  [err |-> out.err,
         v |-> IF IsErr(out) THEN RNone ELSE out.v,
         called |-> RawTruthy(form_layout) /\ form_layout.k = "callable"]

-----------------------------------------------------------------------------
(* Layout Decorator. *)

\* AngularFormMixin._decorate_layout_item, rest.py:394: a hook, does nothing
_decorate_layout_item(item) == item

\* one entry of md['choices'] with the two label sources swapped
Choice_DisplayNameFirst(x) ==
    IF "value" \notin DOMAIN x.m THEN Err("KeyError")
    ELSE Ok(RMap([label |-> PyOr(PyGet(x.m, "display_name"), PyGet(x.m, "label")),
                  value |-> x.m["value"]]))

\* one entry of md['choices'], rest.py:386-389
Choice(x) ==
    IF "value" \notin DOMAIN x.m THEN Err("KeyError")
    ELSE Ok(RMap([label |-> PyOr(PyGet(x.m, "label"), PyGet(x.m, "display_name")),
                  value |-> x.m["value"]]))

\* the leaf branch of _decorate_layout, rest.py:380-392
DecorateLeaf(node, fields_info) ==
    IF "id" \notin DOMAIN node THEN Err("KeyError")
    ELSE LET md == Update(FieldsGet(fields_info, node["id"]), node)
         IN  IF "type" \notin DOMAIN md THEN Err("KeyError")
             ELSE LET typed == IF md["type"] = "choice"
                               THEN Update(md, [type |-> "select"]) ELSE md
                      entries == IF "choices" \in DOMAIN typed /\ RawTruthy(typed["choices"])
                                 THEN [i \in 1..Len(typed["choices"].items) |->
                                          Choice(typed["choices"].items[i])]
                                 ELSE <<>>
                  IN  IF FirstErr(entries) # "" THEN Err(FirstErr(entries))
                      ELSE IF Len(entries) > 0
                           THEN Ok(RMap(_decorate_layout_item(
                                    Update(typed, [choices |-> RList(Values(entries))]))))
                           ELSE Ok(RMap(_decorate_layout_item(typed)))

\* AngularFormMixin._decorate_layout, rest.py:367
RECURSIVE _decorate_layout(_, _)
_decorate_layout(layout, fields_info) ==
    CASE layout.k = "list" ->
            LET subs == [i \in 1..Len(layout.items) |-> _decorate_layout(layout.items[i], fields_info)]
            IN  IF FirstErr(subs) # "" THEN Err(FirstErr(subs)) ELSE Ok(RList(Values(subs)))
      [] layout.k = "dict" ->
            IF "type" \in DOMAIN layout.m /\ layout.m["type"] \in {"fieldset", "columns", "group"}
            THEN LET sub == _decorate_layout(layout.m["controls"], fields_info)
                 IN  IF IsErr(sub) THEN sub
                     ELSE Ok(RMap(_decorate_layout_item(Update(layout.m, [controls |-> sub.v]))))
            ELSE DecorateLeaf(layout.m, fields_info)
      [] OTHER -> Ok(RNone)

-----------------------------------------------------------------------------
(* Naming Normalizer.  _convert_camel_case works in place: on the dicts the
   request created this is a rewrite of the value, on the dicts it shares with
   the configuration (Ref) it is a write to the heap. *)

\* the loop of rest.py:178-183 on one dict: a renamed key is written after the
\* keys that stay, so it wins over an equal key that was already there
CamelKeys(m) ==
    LET names == {<<key, camel(key)>> : key \in DOMAIN m}
        Renamed(nk) == {n \in names : n[2] = nk /\ n[1] # nk}
    IN  [nk \in {n[2] : n \in names} |->
            IF Renamed(nk) # {} THEN m[(CHOOSE n \in Renamed(nk) : TRUE)[1]] ELSE m[nk]]

\* AngularFormMixin._convert_camel_case, rest.py:176: the value it returns
RECURSIVE _convert_camel_case(_)
_convert_camel_case(x) ==
    IF "ref" \in DOMAIN x THEN x
    ELSE CASE x.k = "dict" ->
                RMap(CamelKeys([key \in DOMAIN x.m |->
                        IF key \in StructKeys THEN _convert_camel_case(x.m[key]) ELSE x.m[key]]))
           [] x.k \in {"list", "tuple"} ->
                [k |-> x.k,
                 items |-> [i \in 1..Len(x.items) |-> _convert_camel_case(x.items[i])]]
           [] OTHER -> x

\* the configuration-owned dicts a value reaches
RECURSIVE Refs(_)
Refs(x) ==
    IF "ref" \in DOMAIN x THEN {x.ref}
    ELSE CASE x.k = "dict" ->
                UNION {Refs(x.m[key]) : key \in DOMAIN x.m \cap StructKeys}
           [] x.k \in {"list", "tuple"} -> UNION {Refs(x.items[i]) : i \in 1..Len(x.items)}
           [] OTHER -> {}

\* AngularFormMixin._convert_camel_case, rest.py:176: what it leaves on the heap
CamelHeap(h, x) == [a \in DOMAIN h |-> IF a \in Refs(x) THEN CamelKeys(h[a]) ELSE h[a]]

\* the JSON the renderer writes: every shared dict by its content
RECURSIVE Render(_, _)
Render(x, h) ==
    IF "ref" \in DOMAIN x THEN RMap(h[x.ref])
    ELSE CASE x.k = "dict" ->
                RMap([key \in DOMAIN x.m |->
                        IF key \in StructKeys THEN Render(x.m[key], h) ELSE x.m[key]])
           [] x.k \in {"list", "tuple"} ->
                RList([i \in 1..Len(x.items) |-> Render(x.items[i], h)])
           [] OTHER -> x

-----------------------------------------------------------------------------
(* Form Metadata Assembler and Linked-Form Delegator. *)

\* AngularFormMixin._get_form_title, rest.py:246
_get_form_title(vs, has_instance, form_name) ==
    LET form_title == IF form_name # "" /\ DOMAIN vs.form_titles # {}
                      THEN (IF form_name \in DOMAIN vs.form_titles
                            THEN vs.form_titles[form_name] ELSE RNone)
                      ELSE vs.form_title
        variant == IF Truthy(has_instance) THEN "edit" ELSE "create"
    IN  IF RawTruthy(form_title)
        THEN (CASE vs.form_title.k # "dict" -> Err("TypeError")
                [] variant \notin DOMAIN vs.form_title.m -> Err("KeyError")
                [] OTHER -> Ok(vs.form_title.m[variant]))
        ELSE Ok((IF Truthy(has_instance) THEN "Editing " ELSE "Creating a new ")
                \o vs.verbose_name)

\* AngularFormMixin._get_actions, rest.py:264
_get_actions(has_instance) ==
    IF Truthy(has_instance)
    THEN << [id |-> "save", color |-> "primary", label |-> "Save"],
            [id |-> "cancel", label |-> "Cancel", cancel |-> TRUE] >>
    ELSE << [id |-> "create", color |-> "primary", label |-> "Create"],
            [id |-> "cancel", label |-> "Cancel", cancel |-> TRUE] >>

\* AngularFormMixin._get_url_by_form_id, rest.py:332.  vs.routes maps each
\* angular_form_id to the url_path of the method tagged with it; the lru_cache
\* around it stores results of a pure function and is left out.
_get_url_by_form_id(vs, form_id) ==
    CASE form_id = "" -> ""
      [] form_id \notin DOMAIN vs.routes -> ""
      [] OTHER -> IF EndsWith(vs.routes[form_id], "/")
                  THEN vs.routes[form_id] ELSE vs.routes[form_id] \o "/"

\* what a call of _get_form_metadata leaves behind
\*   err       the exception raised ("" when it returned)
\*   ret       the dict returned
\*   heap      the configuration-owned dicts afterwards
\*   resolved  what _get_form_layout returned, decorated what _decorate_layout did
\*   fetched   whether get_serializer_info ran, called whether a layout callable ran
\*   reads     the class attributes read, as <<viewset, attribute>>
Outcome(err, ret, h, resolved, decorated, fetched, called, reads) ==
    [err |-> err, ret |-> ret, heap |-> h, resolved |-> resolved, decorated |-> decorated,
     fetched |-> fetched, called |-> called, reads |-> reads]

NotConfigured == "Http404: Form layouts not configured"
NotFound == "Http404: Form not found"

LayoutReads(form_name) ==
    IF form_name # "" THEN {"form_layouts", "form_defaults_map"}
    ELSE {"form_layout", "form_defaults"}
TitleReads(form_name) ==
    IF form_name # "" THEN {"form_title", "form_titles"} ELSE {"form_title"}

\* the link id of rest.py:351-354
LinkId(form_def, req) ==
    IF "link_id" \in DOMAIN form_def
    THEN PyOr(PyGet(req.GET, form_def["link_id"]), PyGet(req.data, form_def["link_id"]))
    ELSE PyNone

\* the base path of rest.py:357-360
LinkedPath(path, form_name) == strip_form_suffix(path) \o "/" \o form_name \o "/"

\* the guards of rest.py:296-304
IsLinkedForm(vs, form_name) == form_name # "" /\ form_name \in DOMAIN vs.linked_forms
LayoutsConfigured_Always(vs) == TRUE
LayoutsConfigured(vs) == DOMAIN vs.form_layouts # {}
FormKnown(vs, form_name) == form_name \in DOMAIN vs.form_layouts

RECURSIVE _get_form_metadata(_, _, _, _, _, _, _)

\* AngularFormMixin._linked_form_metadata, rest.py:343
_linked_form_metadata(all, self, form_name, req, h) ==
    LET form_def == all[self].linked_forms[form_name]
    IN  _get_form_metadata(all, form_def["viewset"], LinkId(form_def, req), form_def["form_id"],
                           LinkedPath(req.path, form_name), req, h)

\* AngularFormMixin._get_form_metadata, rest.py:292
_get_form_metadata(all, self, has_instance, form_name, base, req, h) ==
    LET vs == all[self]
        R(names) == {<<self, n>> : n \in names}
        guard == IF form_name # "" THEN R({"linked_forms", "form_layouts"}) ELSE {}
    IN
    CASE IsLinkedForm(vs, form_name) ->
            LET sub == _linked_form_metadata(all, self, form_name, req, h)
            IN  [sub EXCEPT !.reads = @ \cup R({"linked_forms"})]
      [] form_name # "" /\ ~IsLinkedForm(vs, form_name) /\ ~LayoutsConfigured(vs) ->
            Outcome(NotConfigured, RNone, h, RNone, RNone, FALSE, FALSE, guard)
      [] form_name # "" /\ ~IsLinkedForm(vs, form_name) /\ LayoutsConfigured(vs)
                        /\ ~FormKnown(vs, form_name) ->
            Outcome(NotFound, RNone, h, RNone, RNone, FALSE, FALSE, guard)
      [] OTHER ->
            LET fields_info == vs.fields
                resolved == _get_form_layout(vs, fields_info, form_name)
                decorated == _decorate_layout(resolved.v, fields_info)
                layout == _convert_camel_case(decorated.v)
                after == CamelHeap(h, decorated.v)
                title == _get_form_title(vs, has_instance, form_name)
                r1 == guard \cup R(LayoutReads(form_name))
                r2 == r1 \cup R(TitleReads(form_name))
            IN  CASE IsErr(resolved) ->
                        Outcome(resolved.err, RNone, h, RNone, RNone, TRUE, resolved.called, r1)
                  [] ~IsErr(resolved) /\ IsErr(decorated) ->
                        Outcome(decorated.err, RNone, h, resolved.v, RNone,
                                TRUE, resolved.called, r1)
                  [] ~IsErr(resolved) /\ ~IsErr(decorated) /\ IsErr(title) ->
                        Outcome(title.err, RNone, after, resolved.v, decorated.v,
                                TRUE, resolved.called, r2)
                  [] OTHER ->
                        Outcome("",
                                [layout |-> Render(layout, after),
                                 formTitle |-> title.v,
                                 actions |-> _get_actions(has_instance),
                                 method |-> IF Truthy(has_instance) THEN "patch" ELSE "post",
                                 hasInitialData |-> has_instance,
                                 djangoUrl |-> base \o _get_url_by_form_id(vs, form_name)],
                                after, resolved.v, decorated.v, TRUE, resolved.called, r2)

-----------------------------------------------------------------------------
(* The modelled project: a City viewset whose forms link to an Address
   viewset.  The City viewset's class attributes are drawn from the sets
   below; the Address viewset is fixed. *)

\* how many serializer fields and how many hand-written choices the project has
MaxFields == 5
MaxChoices == 4

Min(a, b) == IF a < b THEN a ELSE b
Prefix(seq, n) == SubSeq(seq, 1, Min(n, Len(seq)))

HostName == "city"
DelegateName == "address"

fieldset(title, controls) == RMap([type |-> "fieldset", label |-> title, controls |-> controls])
columns(controls) == RMap([type |-> "columns", columns |-> RTuple(controls)])
group(controls) == RTuple(controls)

KindChoices ==
    RList(<< RMap([value |-> PyStr("t"), display_name |-> PyStr("Town")]),
             RMap([value |-> PyStr("v"), display_name |-> PyStr("Village")]) >>)

FieldPool ==
    << [name |-> "name", info |-> [type |-> "string", read_only |-> FALSE, label |-> "Name",
                                   max_length |-> "40"]],
       [name |-> "code", info |-> [type |-> "integer", read_only |-> TRUE, label |-> "Code"]],
       [name |-> "notes", info |-> [type |-> "string", read_only |-> FALSE, label |-> "Notes",
                                    help_text |-> "Free text"]],
       [name |-> "kind", info |-> [type |-> "choice", read_only |-> FALSE, label |-> "Kind",
                                   choices |-> KindChoices]],
       [name |-> "summary", info |-> [type |-> "field", read_only |-> TRUE,
                                      label |-> "Summary"]],
       [name |-> "mayor", info |-> [type |-> "string", read_only |-> FALSE,
                                    label |-> "Mayor"]] >>

CityFields == Prefix(FieldPool, MaxFields)

\* the model's columns; "summary" is computed by the serializer, "ghost" is unknown
CityColumns ==
    [name |-> "CharField", code |-> "IntegerField", notes |-> "TextField", kind |-> "CharField",
     mayor |-> "TextField"]

ChoicePool ==
    << RMap([value |-> PyStr("1"), label |-> PyStr("One"), display_name |-> PyStr("Uno")]),
       RMap([value |-> PyStr("2"), display_name |-> PyStr("Two")]),
       RMap([value |-> PyStr("3"), label |-> PyStr(""), display_name |-> PyStr("Three")]),
       RMap([value |-> PyStr("4")]),
       RMap([value |-> PyStr("5"), label |-> PyNone, display_name |-> PyStr("")]) >>

HandChoices == RList(Prefix(ChoicePool, MaxChoices))

PlainLayout ==
    RList(<< RStr("name"),
             RMap([id |-> "notes", label |-> "Remarks", validators |-> Ref(1)]),
             RStr("kind") >>)

NestedLayout ==
    RList(<< fieldset("Main", RList(<< RStr("name"), RList(<< RStr("notes"), RStr("summary") >>) >>)),
             columns(<< RStr("kind"), group(<< RStr("code"), RStr("name") >>) >>) >>)

TypedLayout ==
    RTuple(<< RMap([id |-> "name", type |-> "string"]),
              RMap([id |-> "notes", type |-> "integer"]),
              RMap([id |-> "mayor", type |-> "string"]),
              RMap([id |-> "ghost", type |-> "string", label |-> "<lambda:label>"]),
              RMap([id |-> "pick", type |-> "select", choices |-> HandChoices]) >>)

JunkLayout == RList(<< RStr("name"), ROther("42") >>)
GhostLayout == RList(<< RStr("ghost") >>)

StaticDefaults ==
    RMap([notes |-> [label |-> "Default notes", help |-> "Write here"],
          name |-> [validators |-> Ref(2)]])

NoDefaults == RMap(EmptyDict)

\* <<form_layout, form_defaults>> of the City viewset
LayoutCases ==
    { <<RNone, StaticDefaults>>,
      <<RNone, RCallable("labels")>>,
      <<RList(<<>>), NoDefaults>>,
      <<PlainLayout, StaticDefaults>>,
      <<PlainLayout, NoDefaults>>,
      <<NestedLayout, StaticDefaults>>,
      <<TypedLayout, NoDefaults>>,
      <<JunkLayout, NoDefaults>>,
      <<GhostLayout, NoDefaults>>,
      <<RCallable("every_field"), RCallable("labels")>>,
      <<RCallable("empty"), NoDefaults>>,
      <<RCallable("nested"), StaticDefaults>> }

GlobalTitle == RMap([create |-> "New city", edit |-> "Edit city"])
SimpleTitle == RMap([create |-> "New simple city", edit |-> "Edit simple city"])

NamedLayouts == [simple |-> PlainLayout, auto |-> RNone]

\* <<form_layouts, form_title, form_titles>> of the City viewset
TableCases ==
    { <<EmptyDict, RNone, EmptyDict>>,
      <<NamedLayouts, RNone, [simple |-> SimpleTitle]>>,
      <<NamedLayouts, GlobalTitle, [simple |-> SimpleTitle]>>,
      <<NamedLayouts, GlobalTitle, EmptyDict>> }

City(layout, defaults, layouts, title, titles) ==
    [form_layout |-> layout,
     form_title |-> title,
     form_defaults |-> defaults,
     form_layouts |-> layouts,
     form_titles |-> titles,
     form_defaults_map |-> IF DOMAIN layouts = {} THEN EmptyDict ELSE [simple |-> StaticDefaults],
     linked_forms |-> [address |-> [viewset |-> DelegateName, form_id |-> "short",
                                    link_id |-> "city"],
                       plain |-> [viewset |-> DelegateName, form_id |-> ""]],
     fields |-> CityFields,
     columns |-> CityColumns,
     verbose_name |-> "city",
     routes |-> [simple |-> "simple_form/"]]

Address ==
    [form_layout |-> RNone,
     form_title |-> RMap([create |-> "New address", edit |-> "Edit address"]),
     form_defaults |-> RMap(EmptyDict),
     form_layouts |-> [short |-> RList(<< RStr("street"),
                                          RMap([id |-> "zip", validators |-> Ref(3)]) >>)],
     form_titles |-> EmptyDict,
     form_defaults_map |-> EmptyDict,
     linked_forms |-> EmptyDict,
     fields |-> << [name |-> "street", info |-> [type |-> "string", read_only |-> FALSE,
                                                  label |-> "Street"]],
                   [name |-> "zip", info |-> [type |-> "string", read_only |-> FALSE,
                                               label |-> "Zip"]] >>,
     columns |-> [street |-> "TextField", zip |-> "CharField"],
     verbose_name |-> "address",
     routes |-> [short |-> "short_address"]]

\* the dicts nested in the static layouts and defaults above
InitHeap ==
    << [max_length |-> "5", pattern |-> "x"],
       [min_length |-> "1", minLength |-> "0"],
       [zip_format |-> "nnn"] >>

\* every layout case with no table and with the full table, and the layout
\* with explicit overrides with every table case
Configurations ==
    (LayoutCases \X { <<EmptyDict, RNone, EmptyDict>>,
                      <<NamedLayouts, GlobalTitle, [simple |-> SimpleTitle]>> })
    \cup ({ <<PlainLayout, StaticDefaults>> } \X TableCases)

Init ==
    /\ \E c \in Configurations :
            viewsets = [city |-> City(c[1][1], c[1][2], c[2][1], c[2][2], c[2][3]),
                        address |-> Address]
    /\ heap = InitHeap
    /\ request = [handler |-> "none"]
    /\ response = [err |-> "none"]

-----------------------------------------------------------------------------
(* The four routes. *)

Pks == {"7"}

\* the form ids asked of each viewset: configured, linked and unknown ones
FormNames ==
    { <<HostName, "simple">>, <<HostName, "auto">>, <<HostName, "zzz">>,
      <<HostName, "address">>, <<HostName, "plain">>, <<DelegateName, "short">> }

\* <<trailing slash, request.GET, request.data>>
Shapes ==
    { <<"/", EmptyDict, EmptyDict>>,
      <<"", [city |-> PyStr("5")], EmptyDict>>,
      <<"/", [city |-> PyStr("")], [city |-> PyStr("")]>> }

UrlPrefix(v) == "/api/" \o v

\* one request: the handler builds its arguments, _get_form_metadata answers
Serve(handler, v, has_instance, form_name, level, path, get, data) ==
    LET req == [handler |-> handler, viewset |-> v, path |-> path, form_name |-> form_name,
                has_instance |-> has_instance, GET |-> get, data |-> data]
    IN  \E out \in {_get_form_metadata(viewsets, v, PyBool(has_instance), form_name,
                                       base_path(path, level), req, heap)} :
            /\ request' = req
            /\ response' = [f \in DOMAIN out \ {"heap"} |-> out[f]]
            /\ heap' = out.heap
            /\ UNCHANGED viewsets

\* AngularFormMixin.form, rest.py:115: /<id>/form
form ==
    \E v \in {HostName, DelegateName}, pk \in Pks, sh \in Shapes :
        Serve("form", v, TRUE, "", 1, UrlPrefix(v) \o "/" \o pk \o "/form" \o sh[1], sh[2], sh[3])

\* AngularFormMixin.form_list, rest.py:121: /form
form_list ==
    \E v \in {HostName, DelegateName}, sh \in Shapes :
        Serve("form_list", v, FALSE, "", 1, UrlPrefix(v) \o "/form" \o sh[1], sh[2], sh[3])

\* AngularFormMixin.form_with_name, rest.py:127: /<id>/form/<form_id>
form_with_name ==
    \E fn \in FormNames, pk \in Pks, sh \in Shapes :
        Serve("form_with_name", fn[1], TRUE, fn[2], 2,
              UrlPrefix(fn[1]) \o "/" \o pk \o "/form/" \o fn[2] \o sh[1], sh[2], sh[3])

\* AngularFormMixin.form_list_with_name, rest.py:133: /form/<form_id>
form_list_with_name ==
    \E fn \in FormNames, sh \in Shapes :
        Serve("form_list_with_name", fn[1], FALSE, fn[2], 2,
              UrlPrefix(fn[1]) \o "/form/" \o fn[2] \o sh[1], sh[2], sh[3])

Next == form \/ form_list \/ form_with_name \/ form_list_with_name

Spec == Init /\ [][Next]_vars
-----------------------------------------------------------------------------
(* What the properties below talk about. *)

Answered == request.handler # "none"

\* the request asked for a form another viewset defines
IsLinked == Answered /\ IsLinkedForm(viewsets[request.viewset], request.form_name)
FormDef == viewsets[request.viewset].linked_forms[request.form_name]

\* the viewset whose pipeline answers, the form id and instance flag it is given
TargetName == IF IsLinked THEN FormDef["viewset"] ELSE request.viewset
Target == viewsets[TargetName]
TargetForm == IF IsLinked THEN FormDef["form_id"] ELSE request.form_name
TargetInstance == IF IsLinked THEN LinkId(FormDef, request) ELSE PyBool(request.has_instance)

\* the pipeline produced a resolved / decorated layout
HasResolved == Answered /\ response.fetched /\ response.resolved # RNone
HasDecorated == HasResolved /\ response.decorated # RNone

RawLayout == EffectiveLayout(Target, Target.fields, TargetForm)
Defaults == EffectiveDefaults(Target, Target.fields, TargetForm)

RECURSIVE Flat(_)
Flat(seqs) == IF Len(seqs) = 0 THEN <<>> ELSE Head(seqs) \o Flat(Tail(seqs))

\* the leaves a raw layout names, in order; a bare string s names the leaf {id: s}
RECURSIVE RawLeaves(_)
RawLeaves(x) ==
    CASE x.k = "str" -> << [id |-> x.s] >>
      [] x.k \in {"list", "tuple"} -> Flat([i \in 1..Len(x.items) |-> RawLeaves(x.items[i])])
      [] x.k = "dict" ->
            (CASE LayoutType(x.m) \in {"fieldset", "group"} -> RawLeaves(x.m["controls"])
               [] LayoutType(x.m) = "columns" -> RawLeaves(x.m["columns"])
               [] OTHER -> << x.m >>)
      [] OTHER -> <<>>

\* the leaves of a resolved or decorated layout, in order
RECURSIVE Leaves(_)
Leaves(x) ==
    CASE x.k = "list" -> Flat([i \in 1..Len(x.items) |-> Leaves(x.items[i])])
      [] x.k = "dict" ->
            IF LayoutType(x.m) \in {"fieldset", "group", "columns"}
            THEN Leaves(x.m["controls"]) ELSE << x.m >>
      [] OTHER -> <<>>

-----------------------------------------------------------------------------
(* C1: override precedence.  For every leaf of the layout whose id is a key
   of the defaults map, every key the layout gives explicitly keeps the
   layout's value in the resolved node (type aside, which the textarea
   upgrade may rewrite), and every key only the defaults record has is added
   with the default's value: explicit layout wins, defaults fill gaps. *)
C1_ExplicitLayoutWins ==
    HasResolved =>
        LET raw == RawLeaves(RawLayout)
            res == Leaves(response.resolved)
        IN  \A i \in 1..Len(raw) :
                ("id" \in DOMAIN raw[i] /\ raw[i]["id"] \in DOMAIN Defaults) =>
                    LET d == Defaults[raw[i]["id"]]
                    IN  /\ \A key \in DOMAIN raw[i] \ {"type"} :
                                ~IsCallable(key, raw[i][key]) => res[i][key] = raw[i][key]
                        /\ \A key \in DOMAIN d \ DOMAIN raw[i] : res[i][key] = d[key]

-----------------------------------------------------------------------------
(* C3: form-identifier errors.  A request with a non-empty form identifier
   that is not a linked form fails with NotConfigured when the viewset has no
   per-identifier layout table, fails with NotFound when the table lacks the
   identifier, both before field metadata is fetched or a layout callable is
   invoked; with the identifier in the table neither error is raised. *)
C3_FormIdentifierErrors ==
    (Answered /\ request.form_name # "" /\ ~IsLinked) =>
        LET vs == viewsets[request.viewset]
        IN  /\ DOMAIN vs.form_layouts = {} =>
                    response.err = NotConfigured /\ ~response.fetched /\ ~response.called
            /\ (DOMAIN vs.form_layouts # {} /\ request.form_name \notin DOMAIN vs.form_layouts) =>
                    response.err = NotFound /\ ~response.fetched /\ ~response.called
            /\ request.form_name \in DOMAIN vs.form_layouts =>
                    response.err \notin {NotConfigured, NotFound} /\ response.fetched

\* an unknown form identifier was asked of a viewset that has a layout table
C3_Witness ==
    /\ Answered /\ request.form_name = "zzz" /\ ~IsLinked
    /\ DOMAIN viewsets[request.viewset].form_layouts # {}
    /\ response.err = NotFound

-----------------------------------------------------------------------------
(* C4: title selection.  The form title is the per-identifier title when one
   is configured for the requested form identifier; otherwise the global
   title, its edit variant with an instance and its create variant without;
   otherwise "Editing X" / "Creating a new X" from the model's display name. *)
ExpectedTitle(vs, has_instance, form_name) ==
    LET variant == IF Truthy(has_instance) THEN "edit" ELSE "create"
    IN  CASE form_name # "" /\ form_name \in DOMAIN vs.form_titles ->
                vs.form_titles[form_name].m[variant]
          [] ~(form_name # "" /\ form_name \in DOMAIN vs.form_titles) /\ vs.form_title # RNone ->
                vs.form_title.m[variant]
          [] OTHER ->
                (IF Truthy(has_instance) THEN "Editing " ELSE "Creating a new ")
                \o vs.verbose_name

C4_TitleSelection ==
    HasDecorated =>
        /\ response.err = ""
        /\ response.ret.formTitle = ExpectedTitle(Target, TargetInstance, TargetForm)

-----------------------------------------------------------------------------
(* C6: method, actions and instance flag agree in every assembled response,
   also through linked-form delegation: hasInitialData is a boolean, method
   is "patch" exactly when it is true and "post" exactly when it is false,
   and the actions are save/create followed by a colourless cancel. *)
C6_MethodActionsAgree ==
    (Answered /\ response.err = "") =>
        LET ret == response.ret
        IN  /\ ret.hasInitialData.py = "bool"
            /\ ret.method = "patch" <=> ret.hasInitialData = PyBool(TRUE)
            /\ ret.method = "post" <=> ret.hasInitialData = PyBool(FALSE)
            /\ Len(ret.actions) = 2
            /\ ret.actions[1]["id"] = (IF ret.method = "patch" THEN "save" ELSE "create")
            /\ ret.actions[1]["label"] = (IF ret.method = "patch" THEN "Save" ELSE "Create")
            /\ ret.actions[2]["id"] = "cancel"
            /\ ret.actions[2]["cancel"]
            /\ "color" \notin DOMAIN ret.actions[2]

-----------------------------------------------------------------------------
(* C10: requests leave the configuration unchanged.  After any sequence of
   requests the configured layouts and defaults and every mapping nested in
   them equal what they were before the first request. *)
C10_ConfigurationUnchanged == heap = InitHeap

-----------------------------------------------------------------------------
(* C2: linked-form delegation.  When the requested form identifier is a key
   of the host's linked-forms table the response is exactly what the
   delegate's assembler returns for (link-id presence, the delegate's form
   id, the request path with its /form or /form/<segment> suffix replaced by
   /<form-name>/), and of the host's configuration only the linked-forms table
   is read. *)
C2_DelegationReturnsDelegateResult ==
    IsLinked =>
        LET d == _get_form_metadata(viewsets, FormDef["viewset"],
                                    PyBool(Truthy(LinkId(FormDef, request))),
                                    FormDef["form_id"],
                                    LinkedPath(request.path, request.form_name),
                                    request, heap)
        IN  /\ response.err = d.err
            /\ response.ret = d.ret
            /\ response.err \notin {NotConfigured, NotFound}
            /\ \A r \in response.reads : r[1] = request.viewset => r[2] = "linked_forms"

-----------------------------------------------------------------------------
(* C5: choice normalization.  As amended: every decorated leaf with a
   non-empty choices list has one {label, value} entry per choice, value the
   choice's value and label the choice's label when it has a non-empty one,
   else its display_name, else None; a choice with neither label source does
   not make decoration fail. *)
SourceChoices(fields, leaf) ==
    CASE "choices" \in DOMAIN leaf -> leaf["choices"].items
      [] "choices" \notin DOMAIN leaf /\ leaf["id"] \in FieldNames(fields)
            /\ "choices" \in DOMAIN FieldInfo(fields, leaf["id"]) ->
            FieldInfo(fields, leaf["id"])["choices"].items
      [] OTHER -> <<>>

ExpectedLabel(entry) ==
    CASE "label" \in DOMAIN entry /\ Truthy(entry["label"]) -> entry["label"]
      [] ~("label" \in DOMAIN entry /\ Truthy(entry["label"]))
            /\ "display_name" \in DOMAIN entry -> entry["display_name"]
      [] OTHER -> PyNone

HasType(fields, leaf) ==
    "type" \in DOMAIN leaf \/ leaf["id"] \in FieldNames(fields)

-----------------------------------------------------------------------------
(* C7: auto-layout.  As amended: when the layout configured for the requested
   form is absent or empty, the resolved layout is one leaf per metadata entry
   whose read-only flag is false, in the metadata's order, with no read-only
   field and no wrapping group; when a non-empty layout or a layout callable
   is configured, the resolved layout has that layout's fields and nothing is
   synthesized. *)
Writable(fields) ==
    LET W(f) == ~f.info["read_only"] IN SelectSeq(fields, W)

Ids(leaves) == [i \in 1..Len(leaves) |-> leaves[i]["id"]]

Given(vs, fields, form_name) ==
    LET configured == ConfiguredLayout(vs, form_name)
    IN  IF configured.k = "callable" THEN CallLayout(configured.fn, fields) ELSE configured

IsSynthesized ==
    /\ HasResolved
    /\ response.resolved.k = "list"
    /\ Len(response.resolved.items) = Len(Writable(Target.fields))
    /\ \A i \in 1..Len(response.resolved.items) :
          /\ response.resolved.items[i].k = "dict"
          /\ LayoutType(response.resolved.items[i].m) \notin {"group", "fieldset", "columns"}
          /\ response.resolved.items[i].m["id"] = Writable(Target.fields)[i].name

C7_AutoLayout ==
    (Answered /\ response.fetched) =>
        LET configured == ConfiguredLayout(Target, TargetForm)
        IN  /\ ~RawTruthy(configured) => IsSynthesized
            /\ (RawTruthy(configured) /\ HasResolved) =>
                    Ids(Leaves(response.resolved))
                        = Ids(RawLeaves(Given(Target, Target.fields, TargetForm)))

\* no layout at all is configured and the metadata has a read-only field
C7_Witness ==
    /\ Answered /\ response.fetched
    /\ ConfiguredLayout(Target, TargetForm) = RNone
    /\ IsSynthesized
    /\ Len(Writable(Target.fields)) < Len(Target.fields)
    /\ Len(Writable(Target.fields)) > 1

\* C7 as first stated: a layout is synthesized only when none is configured at all
C7_SynthesizedOnlyWhenAbsent ==
    (Answered /\ response.fetched) =>
        LET configured == ConfiguredLayout(Target, TargetForm)
        IN  /\ configured = RNone => IsSynthesized
            /\ (configured # RNone /\ HasResolved) =>
                    Ids(Leaves(response.resolved))
                        = Ids(RawLeaves(Given(Target, Target.fields, TargetForm)))

-----------------------------------------------------------------------------
(* C8: textarea upgrade.  Every leaf whose kind is string (its type, absent
   meaning string) leaves the transformer with kind textarea if the model's
   column for its id is a long-text column and with kind string otherwise, a
   leaf without a column included; a leaf of any other kind keeps its kind;
   the failed column lookup is never the pipeline's failure. *)
RECURSIVE NoJunk(_)
NoJunk(x) ==
    CASE x.k = "str" -> TRUE
      [] x.k \in {"list", "tuple"} -> \A i \in 1..Len(x.items) : NoJunk(x.items[i])
      [] x.k = "dict" ->
            (CASE LayoutType(x.m) \in {"fieldset", "group"} -> NoJunk(x.m["controls"])
               [] LayoutType(x.m) = "columns" -> NoJunk(x.m["columns"])
               [] OTHER -> TRUE)
      [] OTHER -> FALSE

\* the kind of a leaf of the layout once the defaults for its id are merged in
SourceKind(leaf) ==
    CASE leaf["id"] \in DOMAIN Defaults /\ "type" \in DOMAIN Defaults[leaf["id"]] ->
            Defaults[leaf["id"]]["type"]
      [] ~(leaf["id"] \in DOMAIN Defaults /\ "type" \in DOMAIN Defaults[leaf["id"]])
            /\ "type" \in DOMAIN leaf -> leaf["type"]
      [] OTHER -> "string"

LongText(vs, id) == id \in DOMAIN vs.columns /\ vs.columns[id] = "TextField"

C8_TextareaUpgrade ==
    (Answered /\ response.fetched) =>
        /\ response.err # "FieldDoesNotExist"
        /\ NoJunk(RawLayout) => HasResolved
        /\ HasResolved =>
             LET raw == RawLeaves(RawLayout)
                 res == Leaves(response.resolved)
             IN  /\ Len(res) = Len(raw)
                 /\ \A i \in 1..Len(raw) :
                       LayoutType(res[i]) =
                           (CASE SourceKind(raw[i]) = "string" /\ LongText(Target, raw[i]["id"]) ->
                                    "textarea"
                              [] SourceKind(raw[i]) = "string" /\ ~LongText(Target, raw[i]["id"]) ->
                                    "string"
                              [] OTHER -> SourceKind(raw[i]))

\* one layout with a string leaf on a long-text column, a string leaf without
\* any column and a leaf of another kind on a long-text column
C8_Witness ==
    /\ HasResolved
    /\ LET raw == RawLeaves(RawLayout)
           res == Leaves(response.resolved)
       IN  /\ \E i \in 1..Len(raw) :
                 SourceKind(raw[i]) = "string" /\ LongText(Target, raw[i]["id"])
                    /\ res[i]["type"] = "textarea"
           /\ \E i \in 1..Len(raw) :
                 SourceKind(raw[i]) = "string" /\ raw[i]["id"] \notin DOMAIN Target.columns
                    /\ LayoutType(res[i]) = "string"
           /\ \E i \in 1..Len(raw) :
                 SourceKind(raw[i]) # "string" /\ LongText(Target, raw[i]["id"])

-----------------------------------------------------------------------------
(* C9: shape of the resolved layout.  For a raw layout that is an ordered
   sequence of strings, mappings and ordered sequences, the resolver's output
   is a list not wrapped in a group, each of its elements and each element of
   a container's controls is a mapping, a bare string s has become the leaf
   with id s, a nested sequence has become a group of its children in the same
   order, a columns node has its columns under controls and no columns key; a
   value of any other type makes the transformer fail with
   NotImplementedError. *)
RECURSIVE Normalized(_, _)
RECURSIVE SameOrder(_, _)

Normalized(raw, res) ==
    /\ res.k = "dict"
    /\ CASE raw.k = "str" ->
                /\ "id" \in DOMAIN res.m /\ res.m["id"] = raw.s
                /\ LayoutType(res.m) \notin {"group", "fieldset", "columns"}
         [] raw.k \in {"list", "tuple"} ->
                /\ DOMAIN res.m = {"type", "controls"}
                /\ res.m["type"] = "group"
                /\ SameOrder(raw.items, res.m["controls"])
         [] raw.k = "dict" ->
                (CASE LayoutType(raw.m) \in {"fieldset", "group"} ->
                        /\ res.m["type"] = raw.m["type"]
                        /\ SameOrder(raw.m["controls"].items, res.m["controls"])
                   [] LayoutType(raw.m) = "columns" ->
                        /\ res.m["type"] = "columns"
                        /\ "columns" \notin DOMAIN res.m
                        /\ SameOrder(raw.m["columns"].items, res.m["controls"])
                   [] OTHER -> "id" \in DOMAIN res.m /\ res.m["id"] = raw.m["id"])
         [] OTHER -> FALSE

SameOrder(items, res) ==
    /\ res.k = "list"
    /\ Len(res.items) = Len(items)
    /\ \A i \in 1..Len(items) : Normalized(items[i], res.items[i])

C9_ResolvedShape ==
    (Answered /\ response.fetched /\ RawLayout.k \in {"list", "tuple"}) =>
        IF NoJunk(RawLayout)
        THEN HasResolved /\ SameOrder(RawLayout.items, response.resolved)
        ELSE ~HasResolved /\ response.err = "NotImplementedError"

\* a resolved layout with a fieldset holding a group and columns holding a group
C9_Witness ==
    /\ HasResolved
    /\ response.resolved.k = "list"
    /\ \E i \in 1..Len(response.resolved.items) :
          LET node == response.resolved.items[i].m
          IN  /\ LayoutType(node) = "columns"
              /\ \E j \in 1..Len(node["controls"].items) :
                    LayoutType(node["controls"].items[j].m) = "group"
    /\ \E i \in 1..Len(response.resolved.items) :
          LayoutType(response.resolved.items[i].m) = "fieldset"
====
